---- MODULE Spec2Model ----
(***************************************************************************)
(* OCR harmonization of the SR3 Core Rulebook                              *)
(* (scripts/harmonize_core_rulebook.py).                                   *)
(*                                                                         *)
(* A text is a sequence of one-character strings.  The page parser, the    *)
(* quality metrics, the overlap estimator, the winner selector, the        *)
(* harmonizer and the output writer are operators over such texts; main()  *)
(* is the state machine.                                                   *)
(*                                                                         *)
(* Spec is one run of main() over short page texts and every layout of the *)
(* input files; RerunSpec is a run and a second run on the same files,     *)
(* over page texts of 20 and 25 words; MetricsSpec is compute_metrics on   *)
(* page texts that grow word by word; MarkerSpec is one run over primaries *)
(* with lines that resemble a page marker; SecondRunSpec is a run and a    *)
(* second run after a failed write or with one input file replaced.        *)
(***************************************************************************)
EXTENDS Integers, Sequences, FiniteSets, TLC

\* ------------------------------------------------------------------ bounds

\* page numbers written in the markers of the generated documents: 1..MaxPage
MaxPage == 2
\* marker sections of a generated primary document
MaxSections == 2

\* --------------------------------------------------------------- characters

NL == "\n"
SP == " "

\* str.isspace / the regex class \s, over the characters of the model
IsSpace(c) == c \in {SP, NL}
\* the regex class \d
IsDigit(c) == c \in {"0", "1", "2", "3", "4", "5", "6", "7", "8", "9"}
\* str.isalnum
IsAlnum(c) == IsDigit(c) \/ c \in {"P", "A", "G", "E", "p", "a", "g", "e", "b", "c"}
\* str.lower, one character
Lower(c) ==
    CASE c = "P" -> "p"
      [] c = "A" -> "a"
      [] c = "G" -> "g"
      [] c = "E" -> "e"
      [] OTHER -> c
\* the class [a-z0-9] of TOKEN_RE
IsTokenChar(c) == IsDigit(c) \/ c \in {"p", "a", "g", "e", "b", "c"}

DigitVal(c) ==
    CASE c = "0" -> 0 [] c = "1" -> 1 [] c = "2" -> 2 [] c = "3" -> 3
      [] c = "4" -> 4 [] c = "5" -> 5 [] c = "6" -> 6 [] c = "7" -> 7
      [] c = "8" -> 8 [] OTHER -> 9
DigitChar(d) ==
    CASE d = 0 -> "0" [] d = 1 -> "1" [] d = 2 -> "2" [] d = 3 -> "3"
      [] d = 4 -> "4" [] d = 5 -> "5" [] d = 6 -> "6" [] d = 7 -> "7"
      [] d = 8 -> "8" [] OTHER -> "9"

\* int(s) of a digit string
RECURSIVE ParseInt(_)
ParseInt(s) ==
    IF s = <<>> THEN 0
    ELSE 10 * ParseInt(SubSeq(s, 1, Len(s) - 1)) + DigitVal(s[Len(s)])
\* f"{n}" of a non-negative integer
RECURSIVE FormatInt(_)
FormatInt(n) ==
    IF n < 10 THEN <<DigitChar(n)>>
    ELSE FormatInt(n \div 10) \o <<DigitChar(n % 10)>>

\* ------------------------------------------------------------- str helpers

\* first index >= i that is past the end of t or holds no whitespace
SkipSpace(t, i) ==
    CHOOSE j \in i..(Len(t) + 1) :
        /\ j = Len(t) + 1 \/ ~IsSpace(t[j])
        /\ \A k \in i..(j - 1) : IsSpace(t[k])
SkipDigits(t, i) ==
    CHOOSE j \in i..(Len(t) + 1) :
        /\ j = Len(t) + 1 \/ ~IsDigit(t[j])
        /\ \A k \in i..(j - 1) : IsDigit(t[k])
\* last index <= j that is before the start of t or holds no whitespace
BackSpace(t, j) ==
    CHOOSE i \in 0..j :
        /\ i = 0 \/ ~IsSpace(t[i])
        /\ \A k \in (i + 1)..j : IsSpace(t[k])
SkipNL(t, i) ==
    CHOOSE j \in i..(Len(t) + 1) :
        /\ j = Len(t) + 1 \/ t[j] # NL
        /\ \A k \in i..(j - 1) : t[k] = NL
BackNL(t, j) ==
    CHOOSE i \in 0..j :
        /\ i = 0 \/ t[i] # NL
        /\ \A k \in (i + 1)..j : t[k] = NL

\* str.strip()
Strip(t) == SubSeq(t, SkipSpace(t, 1), BackSpace(t, Len(t)))
\* str.strip("\n")
StripNL(t) == SubSeq(t, SkipNL(t, 1), BackNL(t, Len(t)))

\* the literal lit stands in t at index i
HasAt(t, i, lit) ==
    /\ i + Len(lit) - 1 <= Len(t)
    /\ \A k \in 1..Len(lit) : t[i + k - 1] = lit[k]

\* "sep".join(parts)
RECURSIVE Join(_, _)
Join(parts, sep) ==
    IF parts = <<>> THEN <<>>
    ELSE IF Len(parts) = 1 THEN parts[1]
    ELSE parts[1] \o sep \o Join(Tail(parts), sep)

\* ------------------------------------------------------------- page parser

EQ5 == <<"=", "=", "=", "=", "=">>
PAGE == <<"P", "A", "G", "E">>
NoMatch == [start |-> 0, end |-> 0, page |-> 0]

\* greatest f in lo..hi at which the anchor $ of a MULTILINE pattern holds
\* (end of text, or just before a newline); 0 when there is none
RECURSIVE DollarBack(_, _, _)
DollarBack(t, lo, f) ==
    IF f < lo THEN 0
    ELSE IF f = Len(t) + 1 \/ t[f] = NL THEN f
    ELSE DollarBack(t, lo, f - 1)

\* PAGE_RE with every whitespace pattern replaced by one space and the line
\* ending right after the closing equals signs
PageReAtExact(t, i) ==
    IF ~(i = 1 \/ t[i - 1] = NL) \/ ~HasAt(t, i, EQ5 \o <<SP>> \o PAGE \o <<SP>>) THEN NoMatch
    ELSE LET c == SkipDigits(t, i + 11) IN
    IF c = i + 11 \/ ~HasAt(t, c, <<SP>> \o EQ5) THEN NoMatch
    ELSE IF ~(c + 6 = Len(t) + 1 \/ t[c + 6] = NL) THEN NoMatch
    ELSE [start |-> i, end |-> c + 6, page |-> ParseInt(SubSeq(t, i + 11, c - 1))]

\* PAGE_RE with four equals signs on each side
PageReAtFourEquals(t, i) ==
    IF ~(i = 1 \/ t[i - 1] = NL) \/ ~HasAt(t, i, <<"=", "=", "=", "=">>) THEN NoMatch
    ELSE LET a == SkipSpace(t, i + 4) IN
    IF ~HasAt(t, a, PAGE) THEN NoMatch
    ELSE LET b == SkipSpace(t, a + 4) IN
    IF b = a + 4 THEN NoMatch
    ELSE LET c == SkipDigits(t, b) IN
    IF c = b THEN NoMatch
    ELSE LET d == SkipSpace(t, c) IN
    IF ~HasAt(t, d, <<"=", "=", "=", "=">>) THEN NoMatch
    ELSE LET f == DollarBack(t, d + 4, SkipSpace(t, d + 4)) IN
    IF f = 0 THEN NoMatch
    ELSE [start |-> i, end |-> f, page |-> ParseInt(SubSeq(t, b, c - 1))]

\* PAGE_RE.match at index i: ^=====\s*PAGE\s+(\d+)\s*=====\s*$ ; start is the
\* index of the first character, end the index after the last one
PageReAt(t, i) ==
    IF ~(i = 1 \/ t[i - 1] = NL) \/ ~HasAt(t, i, EQ5) THEN NoMatch
    ELSE LET a == SkipSpace(t, i + 5) IN
    IF ~HasAt(t, a, PAGE) THEN NoMatch
    ELSE LET b == SkipSpace(t, a + 4) IN
    IF b = a + 4 THEN NoMatch
    ELSE LET c == SkipDigits(t, b) IN
    IF c = b THEN NoMatch
    ELSE LET d == SkipSpace(t, c) IN
    IF ~HasAt(t, d, EQ5) THEN NoMatch
    ELSE LET f == DollarBack(t, d + 5, SkipSpace(t, d + 5)) IN
    IF f = 0 THEN NoMatch
    ELSE [start |-> i, end |-> f, page |-> ParseInt(SubSeq(t, b, c - 1))]

\* first index >= i at which PAGE_RE matches, Len(t) + 1 when there is none
NextMatch(t, i) ==
    CHOOSE j \in i..(Len(t) + 1) :
        /\ j = Len(t) + 1 \/ PageReAt(t, j) # NoMatch
        /\ \A k \in i..(j - 1) : PageReAt(t, k) = NoMatch

\* list(PAGE_RE.finditer(text)) from index i on
RECURSIVE FindIter(_, _)
FindIter(t, i) ==
    IF i > Len(t) THEN <<>>
    ELSE LET j == NextMatch(t, i) IN
         IF j > Len(t) THEN <<>>
         ELSE <<PageReAt(t, j)>> \o FindIter(t, PageReAt(t, j).end)

\* Put with an entry that is already in the dict kept as it is
PutKeepFirst(pages, k, v) ==
    [p \in DOMAIN pages \cup {k} |-> IF p \in DOMAIN pages THEN pages[p] ELSE v]

\* the dict after pages[page_no] = body
Put(pages, k, v) == [p \in DOMAIN pages \cup {k} |-> IF p = k THEN v ELSE pages[p]]

RECURSIVE ParseLoop(_, _, _, _)
ParseLoop(t, matches, idx, pages) ==
    IF idx > Len(matches) THEN pages
    ELSE LET start == matches[idx].end
             end == IF idx + 1 <= Len(matches) THEN matches[idx + 1].start
                    ELSE Len(t) + 1
         IN ParseLoop(t, matches, idx + 1,
                      Put(pages, matches[idx].page, StripNL(SubSeq(t, start, end - 1))))

EmptyPages == [p \in {} |-> <<>>]

parse_pages(marker_text) ==
    ParseLoop(marker_text, FindIter(marker_text, 1), 1, EmptyPages)

\* ---------------------------------------------------------- quality metrics

\* str.lower of a text
LowerStr(t) == [k \in 1..Len(t) |-> Lower(t[k])]

SkipToken(t, i) ==
    CHOOSE j \in i..(Len(t) + 1) :
        /\ j = Len(t) + 1 \/ ~IsTokenChar(t[j])
        /\ \A k \in i..(j - 1) : IsTokenChar(t[k])
\* a maximal run of [a-z0-9] starts at index k of t
TokenStart(t, k) == IsTokenChar(t[k]) /\ (k = 1 \/ ~IsTokenChar(t[k - 1]))
\* a line starts at index k of t
LineStart(t, k) == k = 1 \/ t[k - 1] = NL
\* index k of t holds a character that is no whitespace, or the first
\* character of a run of whitespace
KeptByCollapse(t, k) == ~IsSpace(t[k]) \/ k = 1 \/ ~IsSpace(t[k - 1])

\* the indices i..Len(t) of t, each with the mark one of the three tests gives it
MarkAt(test, t, k) ==
    CASE test = "token" -> TokenStart(t, k)
      [] test = "line" -> LineStart(t, k)
      [] OTHER -> KeptByCollapse(t, k)
Marked(t, i, test) ==
    [n \in 1..(Len(t) + 1 - i) |-> [at |-> n + i - 1, mark |-> MarkAt(test, t, n + i - 1)]]
IsMarked(x) == x.mark
\* the marked indices of t from i on, in ascending order
MarkedFrom(t, i, test) == SelectSeq(Marked(t, i, test), IsMarked)
TokensAt(t, starts) ==
    [n \in 1..Len(starts) |-> SubSeq(t, starts[n].at, SkipToken(t, starts[n].at) - 1)]
\* TOKEN_RE.findall(t) from index i on: the maximal runs of [a-z0-9]
FindTokens(t, i) == TokensAt(t, MarkedFrom(t, i, "token"))

SkipLine(t, i) ==
    CHOOSE j \in i..(Len(t) + 1) :
        /\ j = Len(t) + 1 \/ t[j] = NL
        /\ \A k \in i..(j - 1) : t[k] # NL
LinesAt(t, starts) ==
    [n \in 1..Len(starts) |-> SubSeq(t, starts[n].at, SkipLine(t, starts[n].at) - 1)]
\* str.splitlines from index i on (i a line start)
SplitLines(t, i) == LinesAt(t, MarkedFrom(t, i, "line"))

CollapsedAt(t, kept) ==
    [n \in 1..Len(kept) |-> IF IsSpace(t[kept[n].at]) THEN SP ELSE t[kept[n].at]]
\* re.sub(r"\s+", " ", t) from index i on (i not inside a run of whitespace)
CollapseSpace(t, i) == CollapsedAt(t, MarkedFrom(t, i, "collapse"))

line_signature(line) == CollapseSpace(LowerStr(Strip(line)), 1)

NonEmpty(x) == x # <<>>
\* [ln for ln in (line_signature(ln) for ln in lines) if ln]
Signatures(lines) ==
    SelectSeq([n \in 1..Len(lines) |-> line_signature(lines[n])], NonEmpty)

SeqToSet(s) == {s[k] : k \in 1..Len(s)}
\* number of characters of t that satisfy neither test
CountNonSpace(t) == Cardinality({k \in 1..Len(t) : ~IsSpace(t[k])})
CountSymbol(t) == Cardinality({k \in 1..Len(t) : ~IsSpace(t[k]) /\ ~IsAlnum(t[k])})

Min(a, b) == IF a < b THEN a ELSE b

\* round(n / d) to the nearest integer, ties to the even one (d > 0)
RoundDiv(n, d) ==
    LET q == n \div d
        r == n - q * d
    IN IF 2 * r < d THEN q
       ELSE IF 2 * r > d THEN q + 1
       ELSE IF q % 2 = 0 THEN q ELSE q + 1

\* round(k * n / d) for an even k, without forming k * n (d > 0)
ScaledRound(k, n, d) == k * (n \div d) + RoundDiv(k * (n % d), d)

\* compute_metrics, lines 122-145.  The ratios are the exact fractions
\* snNum / snDen (symbol noise) and dlNum / dlDen (duplicate lines); the score is
\* scNum / scDen.  The record holds the rounded values: symbol_noise_ratio and
\* duplicate_line_ratio in 1/10000, quality_score in 1/1000.  The code computes
\* in binary floating point; the model computes the same expressions exactly.
ScoreDen(snDen, dlDen) == 20 * snDen * dlDen

\* ScoreNum with the reward for richer text not capped at 300 words
ScoreNumUncapped(word_count, snNum, snDen, dlNum, dlDen) ==
    (100 - (IF word_count = 0 THEN 120 ELSE 0) - (IF word_count < 25 THEN 30 ELSE 0))
        * ScoreDen(snDen, dlDen)
    - 60 * snNum * 20 * dlDen
    - 40 * dlNum * 20 * snDen
    + word_count * snDen * dlDen

\* ScoreNum with the penalty taken from the texts that are not short
ScoreNumPenaltyOnLong(word_count, snNum, snDen, dlNum, dlDen) ==
    (100 - (IF word_count = 0 THEN 120 ELSE 0) - (IF word_count < 25 THEN 0 ELSE 30))
        * ScoreDen(snDen, dlDen)
    - 60 * snNum * 20 * dlDen
    - 40 * dlNum * 20 * snDen
    + Min(word_count, 300) * snDen * dlDen

ScoreNum(word_count, snNum, snDen, dlNum, dlDen) ==
    (100 - (IF word_count = 0 THEN 120 ELSE 0) - (IF word_count < 25 THEN 30 ELSE 0))
        * ScoreDen(snDen, dlDen)
    - 60 * snNum * 20 * dlDen
    - 40 * dlNum * 20 * snDen
    + Min(word_count, 300) * snDen * dlDen

PageMetrics(char_count, word_count, line_count, snNum, snDen, dlNum, dlDen, scNum, scDen) ==
    [char_count |-> char_count,
     word_count |-> word_count,
     line_count |-> line_count,
     empty |-> word_count = 0,
     short |-> word_count < 25,
     symbol_noise_ratio |-> RoundDiv(10000 * snNum, snDen),
     duplicate_line_ratio |-> RoundDiv(10000 * dlNum, dlDen),
     quality_score |-> ScaledRound(1000, scNum, scDen),
     low_quality |-> scNum < 45 * scDen \/ (word_count < 25 /\ 100 * snNum > 28 * snDen),
     suspicious |-> \/ word_count = 0
                    \/ word_count < 15
                    \/ 100 * snNum > 45 * snDen
                    \/ 100 * dlNum > 45 * dlDen]

\* compute_metrics, lines 113-129, from the exact ratios
MetricsOfRatios(char_count, word_count, line_count, snNum, snDen, dlNum, dlDen) ==
    PageMetrics(char_count, word_count, line_count, snNum, snDen, dlNum, dlDen,
                ScoreNum(word_count, snNum, snDen, dlNum, dlDen), ScoreDen(snDen, dlDen))

\* compute_metrics, lines 108-120, from the counts
MetricsOfCounts(char_count, word_count, line_count, distinct_lines, non_space, symbols) ==
    MetricsOfRatios(char_count, word_count, line_count,
                    IF non_space = 0 THEN 1 ELSE symbols,
                    IF non_space = 0 THEN 1 ELSE non_space,
                    IF line_count > 1 THEN line_count - distinct_lines ELSE 0,
                    IF line_count > 1 THEN line_count ELSE 1)

\* compute_metrics, lines 104-114, from the stripped text and its signature lines
MetricsOfLines(stripped, lines) ==
    MetricsOfCounts(Len(stripped), Len(FindTokens(LowerStr(stripped), 1)), Len(lines),
                    Cardinality(SeqToSet(lines)), CountNonSpace(stripped),
                    CountSymbol(stripped))

MetricsOfStripped(stripped) ==
    MetricsOfLines(stripped, Signatures(SplitLines(stripped, 1)))

compute_metrics(text) == MetricsOfStripped(Strip(text))

\* ------------------------------------------------------- overlap estimator

token_set(text) == SeqToSet(FindTokens(LowerStr(text), 1))

\* Jaccard with two empty token sets counted as disjoint
JaccardEmptyIsDisjoint(ta, tb) ==
    IF ta = {} \/ tb = {} THEN <<0, 1>>
    ELSE <<Cardinality(ta \cap tb), Cardinality(ta \cup tb)>>

\* Jaccard with the common tokens counted against the first text alone
JaccardOfFirst(ta, tb) ==
    IF ta = {} /\ tb = {} THEN <<1, 1>>
    ELSE IF ta = {} \/ tb = {} THEN <<0, 1>>
    ELSE <<Cardinality(ta \cap tb), Cardinality(ta)>>

\* jaccard_overlap as the fraction <<numerator, denominator>>
Jaccard(ta, tb) ==
    IF ta = {} /\ tb = {} THEN <<1, 1>>
    ELSE IF ta = {} \/ tb = {} THEN <<0, 1>>
    ELSE <<Cardinality(ta \cap tb), Cardinality(ta \cup tb)>>

jaccard_overlap(a, b) == Jaccard(token_set(a), token_set(b))

\* --------------------------------------------------------- winner selector

\* FirstChoice with the tie decided for the primary
FirstChoiceTieToPrimary(mac_metrics, deep_metrics) ==
    IF mac_metrics.quality_score >= deep_metrics.quality_score
    THEN [winner |-> "macos",
          reasons |-> IF mac_metrics.quality_score = deep_metrics.quality_score
                      THEN <<"tie_break_macos">> ELSE <<"higher_quality_score">>]
    ELSE [winner |-> "deepseek", reasons |-> <<"higher_quality_score">>]

\* FirstChoice with the comparison of the two scores reversed
FirstChoiceLowerWins(mac_metrics, deep_metrics) ==
    IF mac_metrics.quality_score < deep_metrics.quality_score
    THEN [winner |-> "macos", reasons |-> <<"higher_quality_score">>]
    ELSE IF deep_metrics.quality_score < mac_metrics.quality_score
    THEN [winner |-> "deepseek", reasons |-> <<"higher_quality_score">>]
    ELSE [winner |-> "deepseek", reasons |-> <<"tie_break_deepseek">>]

\* choose_winner, lines 163-173
FirstChoice(mac_metrics, deep_metrics) ==
    IF mac_metrics.quality_score > deep_metrics.quality_score
    THEN [winner |-> "macos", reasons |-> <<"higher_quality_score">>]
    ELSE IF deep_metrics.quality_score > mac_metrics.quality_score
    THEN [winner |-> "deepseek", reasons |-> <<"higher_quality_score">>]
    ELSE [winner |-> "deepseek", reasons |-> <<"tie_break_deepseek">>]

\* choose_winner, lines 175-180
Override(winner, mac_metrics, deep_metrics) ==
    IF winner = "macos"
    THEN IF mac_metrics.short /\ ~deep_metrics.short
         THEN <<"macos_short_penalty_override">> ELSE <<>>
    ELSE IF deep_metrics.short /\ ~mac_metrics.short
         THEN <<"deepseek_short_penalty_override">> ELSE <<>>

\* WithOverride with the override reason handing the page to the side that is
\* not short
WithOverrideFlippingWinner(first, mac_metrics, deep_metrics) ==
    IF Override(first.winner, mac_metrics, deep_metrics) = <<>>
    THEN [winner |-> first.winner, reasons |-> first.reasons]
    ELSE [winner |-> IF first.winner = "macos" THEN "deepseek" ELSE "macos",
          reasons |-> first.reasons \o Override(first.winner, mac_metrics, deep_metrics)]

WithOverride(first, mac_metrics, deep_metrics) ==
    [winner |-> first.winner,
     reasons |-> first.reasons \o Override(first.winner, mac_metrics, deep_metrics)]

choose_winner(mac_metrics, deep_metrics) ==
    WithOverride(FirstChoice(mac_metrics, deep_metrics), mac_metrics, deep_metrics)

\* -------------------------------------------------------------- harmonizer

\* short_excerpt(text, width)
short_excerpt(text, width) ==
    LET cleaned == CollapseSpace(Strip(text), 1)
    IN IF Len(cleaned) > width
       THEN SubSeq(cleaned, 1, width) \o <<".", ".", ".">>
       ELSE cleaned

\* page_record: the metrics of one side and an excerpt of 200 characters
page_record(page_no, text, metrics) ==
    [page |-> page_no, metrics |-> metrics, excerpt |-> short_excerpt(text, 200)]

\* sorted(s) of a set of integers
RECURSIVE Sorted(_)
Sorted(s) ==
    IF s = {} THEN <<>>
    ELSE LET m == CHOOSE x \in s : \A y \in s : x <= y
         IN <<m>> \o Sorted(s \ {m})

\* dict.get(p, "")
Get(pages, p) == IF p \in DOMAIN pages THEN pages[p] ELSE <<>>

\* round(overlap, 4), in 1/10000
RoundOverlap(overlap) == RoundDiv(10000 * overlap[1], overlap[2])

\* the page marker line f"===== PAGE {p} ====="
MarkerLine(p) == EQ5 \o <<SP>> \o PAGE \o <<SP>> \o FormatInt(p) \o <<SP>> \o EQ5

\* Flags with the disagreement flag raised when either side is substantial
FlagsEitherSubstantial(overlap, mac_m, deep_m, chosen_m) ==
    (IF /\ 100 * overlap[1] < 22 * overlap[2]
        /\ (mac_m.word_count >= 20 \/ deep_m.word_count >= 20)
     THEN <<"high_disagreement_low_overlap">> ELSE <<>>)
    \o (IF mac_m.low_quality /\ deep_m.low_quality
        THEN <<"both_low_quality">> ELSE <<>>)
    \o (IF chosen_m.suspicious THEN <<"chosen_suspicious">> ELSE <<>>)

\* Flags with chosen_suspicious raised when either side is suspicious
FlagsAnySuspicious(overlap, mac_m, deep_m, chosen_m) ==
    (IF /\ 100 * overlap[1] < 22 * overlap[2]
        /\ mac_m.word_count >= 20
        /\ deep_m.word_count >= 20
     THEN <<"high_disagreement_low_overlap">> ELSE <<>>)
    \o (IF mac_m.low_quality /\ deep_m.low_quality
        THEN <<"both_low_quality">> ELSE <<>>)
    \o (IF mac_m.suspicious \/ deep_m.suspicious THEN <<"chosen_suspicious">> ELSE <<>>)

\* Flags with both_low_quality raised only when the chosen side is not suspicious
FlagsOneOfTheQualityFlags(overlap, mac_m, deep_m, chosen_m) ==
    (IF /\ 100 * overlap[1] < 22 * overlap[2]
        /\ mac_m.word_count >= 20
        /\ deep_m.word_count >= 20
     THEN <<"high_disagreement_low_overlap">> ELSE <<>>)
    \o (IF mac_m.low_quality /\ deep_m.low_quality /\ ~chosen_m.suspicious
        THEN <<"both_low_quality">> ELSE <<>>)
    \o (IF chosen_m.suspicious THEN <<"chosen_suspicious">> ELSE <<>>)

\* harmonize, lines 231-243
Flags(overlap, mac_m, deep_m, chosen_m) ==
    (IF /\ 100 * overlap[1] < 22 * overlap[2]
        /\ mac_m.word_count >= 20
        /\ deep_m.word_count >= 20
     THEN <<"high_disagreement_low_overlap">> ELSE <<>>)
    \o (IF mac_m.low_quality /\ deep_m.low_quality
        THEN <<"both_low_quality">> ELSE <<>>)
    \o (IF chosen_m.suspicious THEN <<"chosen_suspicious">> ELSE <<>>)

\* harmonize, lines 245-271: what one page adds to the chunks, to meta_pages
\* and (when flagged) to the review queue
PageOutput(p, mac_text, deep_text, mac_m, deep_m, rounded, w, chosen_text, flags) ==
    [chunk |-> MarkerLine(p) \o <<NL>> \o Strip(chosen_text) \o <<NL>>,
     meta |-> [page |-> p,
               winner |-> w.winner,
               winner_reasons |-> w.reasons,
               overlap_jaccard |-> rounded,
               flags |-> flags,
               sources |-> [macos |-> page_record(p, mac_text, mac_m),
                            deepseek |-> page_record(p, deep_text, deep_m)]],
     review |-> [page |-> p,
                 winner |-> w.winner,
                 flags |-> flags,
                 overlap_jaccard |-> rounded,
                 mac_excerpt |-> short_excerpt(mac_text, 280),
                 deepseek_excerpt |-> short_excerpt(deep_text, 280)]]

\* harmonize, lines 228-243
PageDecision(p, mac_text, deep_text, mac_m, deep_m, overlap, w) ==
    PageOutput(p, mac_text, deep_text, mac_m, deep_m, RoundOverlap(overlap), w,
               IF w.winner = "macos" THEN mac_text ELSE deep_text,
               Flags(overlap, mac_m, deep_m, IF w.winner = "macos" THEN mac_m ELSE deep_m))

\* harmonize, lines 222-226
PageScored(p, mac_text, deep_text, mac_m, deep_m) ==
    PageDecision(p, mac_text, deep_text, mac_m, deep_m,
                 jaccard_overlap(mac_text, deep_text), choose_winner(mac_m, deep_m))

\* PageStep with the primary's metrics computed from both texts of the page
PageStepJointMetrics(p, mac_text, deep_text) ==
    PageScored(p, mac_text, deep_text,
               compute_metrics(mac_text \o <<NL>> \o deep_text), compute_metrics(deep_text))

\* one pass of the loop body of harmonize, for page p
PageStep(p, mac_text, deep_text) ==
    PageScored(p, mac_text, deep_text, compute_metrics(mac_text), compute_metrics(deep_text))

\* harmonize, lines 273-279
Assemble(steps, review_queue) ==
    [harmonized_text |->
        Strip(Join([k \in 1..Len(steps) |-> steps[k].chunk], <<NL>>)) \o <<NL>>,
     meta_pages |-> [k \in 1..Len(steps) |-> steps[k].meta],
     review_queue |-> review_queue,
     total_pages |-> Len(steps),
     flagged_pages |-> Len(review_queue)]

HasFlags(r) == r.flags # <<>>

\* AssembleSteps with every page queued for review
AssembleStepsAllQueued(steps) ==
    Assemble(steps, [k \in 1..Len(steps) |-> steps[k].review])

AssembleSteps(steps) ==
    Assemble(steps, SelectSeq([k \in 1..Len(steps) |-> steps[k].review], HasFlags))

\* PageSteps with every page compared with the secondary text of the first page
PageStepsAgainstFirstPage(all_pages, mac_pages, deep_pages) ==
    [k \in 1..Len(all_pages) |->
        PageStep(all_pages[k], Get(mac_pages, all_pages[k]), Get(deep_pages, all_pages[1]))]

\* harmonize, lines 218-226, over the sorted page numbers
PageSteps(all_pages, mac_pages, deep_pages) ==
    [k \in 1..Len(all_pages) |->
        PageStep(all_pages[k], Get(mac_pages, all_pages[k]), Get(deep_pages, all_pages[k]))]

harmonize(mac_pages, deep_pages) ==
    AssembleSteps(PageSteps(Sorted(DOMAIN mac_pages \cup DOMAIN deep_pages),
                            mac_pages, deep_pages))

\* ----------------------------------------------------------- output writer

\* the four artifacts, in the order write_outputs writes them
Artifacts == <<"harmonized.md", "harmonized.meta.json", "review_queue.md", "review_queue.jsonl">>

Absent == [present |-> FALSE, run |-> "none", content |-> <<>>]
EmptyDir == [f \in SeqToSet(Artifacts) |-> Absent]

\* Payload with review_queue.jsonl written from the full decision list
PayloadJsonlFromAllPages(f, result, run_meta) ==
    CASE f = "harmonized.md" -> result.harmonized_text
      [] f = "harmonized.meta.json" ->
            [run |-> run_meta,
             summary |-> [total_pages |-> result.total_pages,
                          flagged_pages |-> result.flagged_pages],
             pages |-> result.meta_pages]
      [] f = "review_queue.md" ->
            [flagged_pages |-> result.flagged_pages,
             total_pages |-> result.total_pages,
             items |-> result.review_queue]
      [] OTHER -> result.meta_pages

\* what write_outputs puts into each artifact
Payload(f, result, run_meta) ==
    CASE f = "harmonized.md" -> result.harmonized_text
      [] f = "harmonized.meta.json" ->
            [run |-> run_meta,
             summary |-> [total_pages |-> result.total_pages,
                          flagged_pages |-> result.flagged_pages],
             pages |-> result.meta_pages]
      [] f = "review_queue.md" ->
            [flagged_pages |-> result.flagged_pages,
             total_pages |-> result.total_pages,
             items |-> result.review_queue]
      [] OTHER -> result.review_queue

\* write_outputs with review_queue.jsonl opened for appending
write_outputs_appending(dir, k, run, result, run_meta) ==
    [f \in SeqToSet(Artifacts) |->
        IF \E n \in 1..k : Artifacts[n] = f
        THEN [present |-> TRUE, run |-> run,
              content |-> IF f = "review_queue.jsonl" /\ dir[f].present
                          THEN dir[f].content \o Payload(f, result, run_meta)
                          ELSE Payload(f, result, run_meta)]
        ELSE dir[f]]

\* the directory after write_outputs has written its first k artifacts
write_outputs(dir, k, run, result, run_meta) ==
    [f \in SeqToSet(Artifacts) |->
        IF \E n \in 1..k : Artifacts[n] = f
        THEN [present |-> TRUE, run |-> run, content |-> Payload(f, result, run_meta)]
        ELSE dir[f]]

\* how one call of write_outputs can end: all four artifacts written, or an
\* exception of mkdir or of the write of artifact k + 1 after k complete writes
WriteOutcomes ==
    {[kind |-> "ok", k |-> Len(Artifacts)]}
    \cup {[kind |-> e, k |-> k] : e \in {"PermissionError", "OSError"},
                                  k \in 0..(Len(Artifacts) - 1)}

\* ------------------------------------------------------- secondary source

\* int(stem.split("_")[-1]) succeeds
IsIntText(suffix) == suffix # <<>> /\ \A k \in 1..Len(suffix) : IsDigit(suffix[k])

\* the chunks of the page files whose stem ends in an integer
RECURSIVE PageChunks(_)
PageChunks(page_files) ==
    IF page_files = <<>> THEN <<>>
    ELSE LET pf == Head(page_files) IN
         (IF IsIntText(pf.suffix)
          THEN <<MarkerLine(ParseInt(pf.suffix)) \o <<NL>> \o StripNL(pf.text) \o <<NL>>>>
          ELSE <<>>)
         \o PageChunks(Tail(page_files))

\* synthesize_markered_text_from_deepseek_pages: the exception raised ("none"
\* when it returns) and the text returned
synthesize_markered_text_from_deepseek_pages(dir) ==
    IF ~dir.exists THEN [raised |-> "FileNotFoundError", text |-> <<>>]
    ELSE IF dir.page_files = <<>> THEN [raised |-> "FileNotFoundError", text |-> <<>>]
    ELSE LET chunks == PageChunks(dir.page_files) IN
         IF chunks = <<>> THEN [raised |-> "ValueError", text |-> <<>>]
         ELSE [raised |-> "none", text |-> Join(chunks, <<NL>>)]

\* ------------------------------------------------------- downstream reader

\* build_sr3_lore_kb.parse_pages, the loop over the matches: as ParseLoop, with
\* each body stripped of all surrounding whitespace
RECURSIVE KbParseLoop(_, _, _, _)
KbParseLoop(t, ms, i, pages) ==
    IF i > Len(ms) THEN pages
    ELSE LET start == ms[i].end
             end == IF i + 1 <= Len(ms) THEN ms[i + 1].start ELSE Len(t) + 1
         IN KbParseLoop(t, ms, i + 1, Put(pages, ms[i].page, Strip(SubSeq(t, start, end - 1))))

\* build_sr3_lore_kb.parse_pages(text), applied to harmonized.md
kb_parse_pages(text) == KbParseLoop(text, FindIter(text, 1), 1, EmptyPages)

\* ------------------------------------------------------------------ inputs

\* page bodies of the generated documents
Words2 == <<"a", SP, "b">>
SymbolLines == <<"#", NL, "#">>
IndentedMarker == <<SP>> \o MarkerLine(2)
MacBodies == {<<>>, Words2, IndentedMarker}
DeepBodies == {<<>>, Words2, SymbolLines}

Section(p, body) == MarkerLine(p) \o <<NL>> \o body \o <<NL>>
Sections(bodies) == {Section(p, b) : p \in 1..MaxPage, b \in bodies}
RECURSIVE Concat(_)
Concat(ss) == IF ss = <<>> THEN <<>> ELSE Head(ss) \o Concat(Tail(ss))
\* the documents of at most n marker sections
Docs(n, bodies) ==
    {Concat(ss) : ss \in UNION {[1..k -> Sections(bodies)] : k \in 0..n}}

\* a document whose only marker-like line has four equals signs on each side
EQ4 == <<"=", "=", "=", "=">>
MalformedDoc == EQ4 \o <<SP>> \o PAGE \o <<SP, "2", SP>> \o EQ4 \o <<NL>> \o Words2 \o <<NL>>

MacFiles == Docs(MaxSections, MacBodies) \cup {MalformedDoc}
\* result.cleaned.md: missing, or present with no marker or one section
DeepFiles ==
    {[exists |-> FALSE, text |-> <<>>]}
    \cup {[exists |-> TRUE, text |-> t] : t \in Docs(1, DeepBodies) \cup {Words2}}
\* the sibling pages/ directory with its sorted page_*.md files
NoPagesDir == [exists |-> FALSE, page_files |-> <<>>]
PagesDirs ==
    {NoPagesDir,
     [exists |-> TRUE, page_files |-> <<>>],
     [exists |-> TRUE, page_files |-> <<[suffix |-> <<"c">>, text |-> Words2]>>],
     [exists |-> TRUE, page_files |-> <<[suffix |-> <<"0", "1">>, text |-> Words2]>>],
     [exists |-> TRUE, page_files |-> <<[suffix |-> <<"0", "2">>, text |-> <<>>],
                                        [suffix |-> <<"c">>, text |-> Words2]>>]}

TargetDir == "harmonized_core_firstpass"
DEFAULT_LOCAL_FALLBACK_OUTPUT == "outputs/harmonized_core_firstpass"
Dirs == {TargetDir, DEFAULT_LOCAL_FALLBACK_OUTPUT}
NoPath == ""

\* artifacts an earlier run left in a directory
StaleDir == [f \in SeqToSet(Artifacts) |-> [present |-> TRUE, run |-> "earlier", content |-> <<>>]]

NoResult ==
    [harmonized_text |-> <<>>, meta_pages |-> <<>>, review_queue |-> <<>>,
     total_pages |-> 0, flagged_pages |-> 0]
NoRunMeta ==
    [mac_path |-> NoPath, deepseek_path |-> NoPath, deepseek_input_mode |-> "",
     output_dir |-> NoPath, output_dir_fallback |-> NoPath]

\* ------------------------------------------------------------------- state

VARIABLES
    pc,                   \* position in main()
    mac_file,             \* content of args.mac_path
    deep_file,            \* args.deepseek_path: whether it exists, its content
    pages_dir,            \* args.deepseek_path.parent / "pages"
    fs,                   \* the artifacts of the target and the fallback directory
    mac_text, deep_text, deepseek_input_mode,
    mac_pages, deep_pages,
    result, run_meta, actual_output_dir,
    error,                \* the exception main() ended with, "none" otherwise
    prev_run,             \* what the previous run of main() on these inputs left
    page_text,            \* a page text handed to compute_metrics
    page_metrics,         \* the PageMetrics compute_metrics returned for it
    shorter,              \* an earlier page_text, with fewer words, and its metrics
    appended              \* the number of words appended to page_text so far

vars == <<pc, mac_file, deep_file, pages_dir, fs, mac_text, deep_text,
          deepseek_input_mode, mac_pages, deep_pages, result, run_meta,
          actual_output_dir, error, prev_run, page_text, page_metrics, shorter,
          appended>>

inputs == <<mac_file, deep_file, pages_dir>>
\* the variables of a run of main()
run_vars == <<pc, inputs, fs, mac_text, deep_text, deepseek_input_mode, mac_pages,
              deep_pages, result, run_meta, actual_output_dir, error, prev_run>>
\* the variables of a call of compute_metrics on its own
metric_vars == <<page_text, page_metrics, shorter, appended>>

\* no earlier run, no earlier text
NoRun ==
    [ran |-> FALSE, result |-> NoResult, fs |-> [d \in Dirs |-> EmptyDir],
     mac_pages |-> EmptyPages, deep_pages |-> EmptyPages]
NoShorter == [defined |-> FALSE, text |-> <<>>, metrics |-> compute_metrics(<<>>)]

\* no page text has been handed to compute_metrics on its own
MetricsIdle ==
    /\ page_text = <<>>
    /\ page_metrics = compute_metrics(<<>>)
    /\ shorter = NoShorter
    /\ appended = 0

Init ==
    /\ pc = "start"
    /\ mac_file \in MacFiles
    /\ deep_file \in DeepFiles
    /\ pages_dir \in IF deep_file.exists THEN {NoPagesDir} ELSE PagesDirs
    /\ fs \in {[d \in Dirs |-> EmptyDir],
               [d \in Dirs |-> IF d = TargetDir THEN StaleDir ELSE EmptyDir]}
    /\ mac_text = <<>>
    /\ deep_text = <<>>
    /\ deepseek_input_mode = ""
    /\ mac_pages = EmptyPages
    /\ deep_pages = EmptyPages
    /\ result = NoResult
    /\ run_meta = NoRunMeta
    /\ actual_output_dir = NoPath
    /\ error = "none"
    /\ prev_run = NoRun
    /\ MetricsIdle

\* main, lines 351-363: read the primary, then the secondary or its stand-ins
LoadInputs ==
    /\ pc = "start"
    /\ UNCHANGED <<prev_run, metric_vars>>
    /\ mac_text' = mac_file
    /\ IF deep_file.exists
       THEN /\ deep_text' = deep_file.text
            /\ deepseek_input_mode' = "result.cleaned.md"
            /\ pc' = "loaded"
            /\ error' = error
       ELSE LET syn == synthesize_markered_text_from_deepseek_pages(pages_dir) IN
            /\ deep_text' = syn.text
            /\ deepseek_input_mode' =
                  CASE syn.raised = "none" -> "synthesized_from_pages"
                    [] syn.raised = "FileNotFoundError" -> "missing_deepseek_fallback_macos_only"
                    [] OTHER -> "result.cleaned.md"
            /\ pc' = IF syn.raised = "ValueError" THEN "failed" ELSE "loaded"
            /\ error' = IF syn.raised = "ValueError" THEN "ValueError" ELSE error
    /\ UNCHANGED <<inputs, fs, mac_pages, deep_pages, result, run_meta, actual_output_dir>>

\* ParsePages without the check for an empty primary page map
ParsePagesUnchecked ==
    /\ pc = "loaded"
    /\ UNCHANGED <<prev_run, metric_vars>>
    /\ mac_pages' = parse_pages(mac_text)
    /\ deep_pages' = IF Strip(deep_text) # <<>> THEN parse_pages(deep_text) ELSE EmptyPages
    /\ pc' = "parsed"
    /\ UNCHANGED <<inputs, fs, mac_text, deep_text, deepseek_input_mode, result,
                   run_meta, actual_output_dir, error>>

\* main, lines 365-369
ParsePages ==
    /\ pc = "loaded"
    /\ UNCHANGED <<prev_run, metric_vars>>
    /\ mac_pages' = parse_pages(mac_text)
    /\ deep_pages' = IF Strip(deep_text) # <<>> THEN parse_pages(deep_text) ELSE EmptyPages
    /\ IF DOMAIN mac_pages' = {}
       THEN pc' = "failed" /\ error' = "ValueError"
       ELSE pc' = "parsed" /\ error' = error
    /\ UNCHANGED <<inputs, fs, mac_text, deep_text, deepseek_input_mode, result,
                   run_meta, actual_output_dir>>

\* main, lines 371-379
Harmonize ==
    /\ pc = "parsed"
    /\ UNCHANGED <<prev_run, metric_vars>>
    /\ result' = harmonize(mac_pages, deep_pages)
    /\ run_meta' = [mac_path |-> "result.txt",
                    deepseek_path |-> "result.cleaned.md",
                    deepseek_input_mode |-> deepseek_input_mode,
                    output_dir |-> TargetDir,
                    output_dir_fallback |-> NoPath]
    /\ actual_output_dir' = TargetDir
    /\ pc' = "write"
    /\ UNCHANGED <<inputs, fs, mac_text, deep_text, deepseek_input_mode, mac_pages,
                   deep_pages, error>>

\* main, lines 380-384: write_outputs into args.output_dir
WriteTarget ==
    /\ pc = "write"
    /\ UNCHANGED <<prev_run, metric_vars>>
    /\ \E o \in WriteOutcomes :
          /\ fs' = [fs EXCEPT ![TargetDir] =
                        write_outputs(@, o.k, "current", result, run_meta)]
          /\ CASE o.kind = "ok" ->
                    /\ pc' = "done"
                    /\ UNCHANGED <<run_meta, actual_output_dir, error>>
               [] o.kind = "PermissionError" ->
                    /\ pc' = "write_fallback"
                    /\ actual_output_dir' = DEFAULT_LOCAL_FALLBACK_OUTPUT
                    /\ run_meta' = [run_meta EXCEPT !.output_dir_fallback =
                                                        DEFAULT_LOCAL_FALLBACK_OUTPUT]
                    /\ error' = error
               [] OTHER ->
                    /\ pc' = "failed"
                    /\ error' = o.kind
                    /\ UNCHANGED <<run_meta, actual_output_dir>>
    /\ UNCHANGED <<inputs, mac_text, deep_text, deepseek_input_mode, mac_pages,
                   deep_pages, result>>

\* main, line 385: write_outputs into the local fallback directory
WriteFallback ==
    /\ pc = "write_fallback"
    /\ UNCHANGED <<prev_run, metric_vars>>
    /\ \E o \in WriteOutcomes :
          /\ fs' = [fs EXCEPT ![DEFAULT_LOCAL_FALLBACK_OUTPUT] =
                        write_outputs(@, o.k, "current", result, run_meta)]
          /\ IF o.kind = "ok"
             THEN pc' = "done" /\ error' = error
             ELSE pc' = "failed" /\ error' = o.kind
    /\ UNCHANGED <<inputs, mac_text, deep_text, deepseek_input_mode, mac_pages,
                   deep_pages, result, run_meta, actual_output_dir>>

Next ==
    \/ LoadInputs
    \/ ParsePages
    \/ Harmonize
    \/ WriteTarget
    \/ WriteFallback

Spec == Init /\ [][Next]_vars

\* ------------------------------------------- two runs on longer page texts

\* n copies of unit, joined by single spaces
Rep(unit, n) ==
    [k \in 1..(n * (Len(unit) + 1) - 1) |->
        IF k % (Len(unit) + 1) = 0 THEN SP ELSE unit[k % (Len(unit) + 1)]]

\* 25 clean words on one line
Clean25 == Rep(<<"A", "A", "A">>, 25)
\* 25 words, two symbols after each
LongNoisy == Rep(<<"b", "#", "#">>, 25)
\* 20 words, three symbols after each; the two texts share no token
LowNoisyA == Rep(<<"a", "#", "#", "#">>, 20)
LowNoisyB == Rep(<<"b", "#", "#", "#">>, 20)

RichBodies == {<<>>, Words2, Clean25, LongNoisy, LowNoisyA, LowNoisyB}
TailBodies == {Words2, Clean25}

\* the sections of pages p..n, for every n <= MaxPage
RECURSIVE TailDocs(_)
TailDocs(p) ==
    IF p > MaxPage THEN {<<>>}
    ELSE {<<>>} \cup {Section(p, b) \o t : b \in TailBodies, t \in TailDocs(p + 1)}

RichMacFiles == {Section(1, b) \o t : b \in RichBodies, t \in TailDocs(2)}
\* result.cleaned.md: missing, one section, or a short page 1 and a noisy page 2
RichDeepFiles ==
    {[exists |-> FALSE, text |-> <<>>]}
    \cup {[exists |-> TRUE, text |-> Section(1, b)] : b \in RichBodies}
    \cup {[exists |-> TRUE, text |-> Section(1, Words2) \o Section(2, LongNoisy)]}

InitRerun ==
    /\ pc = "start"
    /\ mac_file \in RichMacFiles
    /\ deep_file \in RichDeepFiles
    /\ pages_dir = NoPagesDir
    /\ fs = [d \in Dirs |-> EmptyDir]
    /\ mac_text = <<>>
    /\ deep_text = <<>>
    /\ deepseek_input_mode = ""
    /\ mac_pages = EmptyPages
    /\ deep_pages = EmptyPages
    /\ result = NoResult
    /\ run_meta = NoRunMeta
    /\ actual_output_dir = NoPath
    /\ error = "none"
    /\ prev_run = NoRun
    /\ MetricsIdle

\* the artifacts of a directory, as the next run finds them
Aged(dir) == [f \in DOMAIN dir |-> IF dir[f].present THEN [dir[f] EXCEPT !.run = "earlier"]
                                   ELSE dir[f]]

\* main() is run a second time on the same input files, after a first run that
\* reported success; nothing but the files on disk is carried over
Rerun ==
    /\ pc = "done"
    /\ ~prev_run.ran
    /\ prev_run' = [ran |-> TRUE, result |-> result, fs |-> fs,
                     mac_pages |-> mac_pages, deep_pages |-> deep_pages]
    /\ fs' = [d \in Dirs |-> Aged(fs[d])]
    /\ pc' = "start"
    /\ mac_text' = <<>>
    /\ deep_text' = <<>>
    /\ deepseek_input_mode' = ""
    /\ mac_pages' = EmptyPages
    /\ deep_pages' = EmptyPages
    /\ result' = NoResult
    /\ run_meta' = NoRunMeta
    /\ actual_output_dir' = NoPath
    /\ error' = "none"
    /\ UNCHANGED <<inputs, metric_vars>>

NextRerun ==
    \/ LoadInputs
    \/ ParsePages
    \/ Harmonize
    \/ WriteTarget
    \/ WriteFallback
    \/ Rerun

RerunSpec == InitRerun /\ [][NextRerun]_vars

\* ------------------------- a second run after a failure or on other inputs

SecondMacFiles ==
    {Section(1, b) \o t : b \in {Words2, LowNoisyA},
                          t \in {<<>>, Section(2, Words2), Section(2, Clean25)}}
SecondDeepFiles ==
    {[exists |-> FALSE, text |-> <<>>]}
    \cup {[exists |-> TRUE, text |-> Section(1, b)] : b \in {<<>>, Words2, LowNoisyB}}
    \cup {[exists |-> TRUE, text |-> Section(1, Words2) \o Section(2, LongNoisy)]}

InitSecondRun ==
    /\ pc = "start"
    /\ mac_file \in SecondMacFiles
    /\ deep_file \in SecondDeepFiles
    /\ pages_dir = NoPagesDir
    /\ fs = [d \in Dirs |-> EmptyDir]
    /\ mac_text = <<>>
    /\ deep_text = <<>>
    /\ deepseek_input_mode = ""
    /\ mac_pages = EmptyPages
    /\ deep_pages = EmptyPages
    /\ result = NoResult
    /\ run_meta = NoRunMeta
    /\ actual_output_dir = NoPath
    /\ error = "none"
    /\ prev_run = NoRun
    /\ MetricsIdle

\* main() starts again: the first run is remembered for comparison, and
\* nothing but the files on disk is carried over
StartOver ==
    /\ ~prev_run.ran
    /\ prev_run' = [ran |-> TRUE, result |-> result, fs |-> fs,
                    mac_pages |-> mac_pages, deep_pages |-> deep_pages]
    /\ fs' = [d \in Dirs |-> Aged(fs[d])]
    /\ pc' = "start"
    /\ mac_text' = <<>>
    /\ deep_text' = <<>>
    /\ deepseek_input_mode' = ""
    /\ mac_pages' = EmptyPages
    /\ deep_pages' = EmptyPages
    /\ result' = NoResult
    /\ run_meta' = NoRunMeta
    /\ actual_output_dir' = NoPath
    /\ error' = "none"
    /\ UNCHANGED <<pages_dir, metric_vars>>

\* main() is run again on the same input files and the same target directory
\* after a run that raised while writing its artifacts
Retry ==
    /\ pc = "failed"
    /\ result.total_pages > 0
    /\ StartOver
    /\ UNCHANGED <<mac_file, deep_file>>

\* main() is run again after a run that reported success, with one of the two
\* input files replaced by another one
RerunChanged ==
    /\ pc = "done"
    /\ StartOver
    /\ \/ mac_file' \in SecondMacFiles \ {mac_file} /\ deep_file' = deep_file
       \/ deep_file' \in SecondDeepFiles \ {deep_file} /\ mac_file' = mac_file

NextSecondRun ==
    \/ LoadInputs
    \/ ParsePages
    \/ Harmonize
    \/ WriteTarget
    \/ WriteFallback
    \/ Retry
    \/ RerunChanged

SecondRunSpec == InitSecondRun /\ [][NextSecondRun]_vars

\* --------------------------------------- compute_metrics on growing texts

\* n times the character c
Run(c, n) == [k \in 1..n |-> c]

\* words appended to one page text
MaxAppend == 4

DupLines == <<"a", NL, "a">>
\* one symbol among seven characters
SeventhSymbol == Run("a", 6) \o <<"#">>
\* one word of 807 characters, 226 of them symbols
NoisyWord == Run("#", 226) \o Run("a", 581)
\* the page texts before any word is appended: two words short of the word
\* counts 15, 25 and 300 that compute_metrics tests, and texts with symbols or
\* duplicate lines
MetricBases ==
    {<<>>, Words2, SymbolLines, DupLines, SeventhSymbol, NoisyWord,
     Rep(<<"a">>, 15 - 2), Rep(<<"a">>, 25 - 2), Rep(<<"a">>, 300 - 2)}

\* no run of main() is in progress
RunIdle ==
    /\ pc = "start"
    /\ mac_file = <<>>
    /\ deep_file = [exists |-> FALSE, text |-> <<>>]
    /\ pages_dir = NoPagesDir
    /\ fs = [d \in Dirs |-> EmptyDir]
    /\ mac_text = <<>>
    /\ deep_text = <<>>
    /\ deepseek_input_mode = ""
    /\ mac_pages = EmptyPages
    /\ deep_pages = EmptyPages
    /\ result = NoResult
    /\ run_meta = NoRunMeta
    /\ actual_output_dir = NoPath
    /\ error = "none"
    /\ prev_run = NoRun

InitMetrics ==
    /\ RunIdle
    /\ page_text \in MetricBases
    /\ page_metrics = compute_metrics(page_text)
    /\ shorter = NoShorter
    /\ appended = 0

\* compute_metrics is called on the text with one more word: a number no
\* earlier word of the text equals, after a space or on a line of its own; the
\* text remembered as the shorter one is the text before this word or an
\* earlier one
AppendWord ==
    /\ appended < MaxAppend
    /\ \E sep \in {SP, NL} : page_text' = page_text \o <<sep>> \o FormatInt(appended + 1)
    /\ page_metrics' = compute_metrics(page_text')
    /\ shorter' \in {[defined |-> TRUE, text |-> page_text, metrics |-> page_metrics]}
                    \cup (IF shorter.defined THEN {shorter} ELSE {})
    /\ appended' = appended + 1
    /\ UNCHANGED run_vars

NextMetrics == AppendWord

MetricsSpec == InitMetrics /\ [][NextMetrics]_vars

\* -------------------------------------- primaries with marker-like lines

\* lines that differ from the marker line of page p in whitespace only
GluedMarker(p) == EQ5 \o PAGE \o <<SP>> \o FormatInt(p) \o EQ5
WideMarker(p) ==
    EQ5 \o <<SP, SP>> \o PAGE \o <<SP, SP>> \o FormatInt(p) \o <<SP, SP>> \o EQ5
TrailingSpaceMarker(p) == MarkerLine(p) \o <<SP>>
\* the marker of page p with a line break in place of each space
SpanningMarker(p) == EQ5 \o <<NL>> \o PAGE \o <<NL>> \o FormatInt(p) \o <<NL>> \o EQ5
\* a marker of page p over three lines whose last line opens what would be a
\* marker of the next page
OverlappingMarkers(p) ==
    EQ5 \o <<NL>> \o PAGE \o <<SP>> \o FormatInt(p) \o <<NL>> \o EQ5
    \o <<NL>> \o PAGE \o <<SP>> \o FormatInt(p + 1) \o <<SP>> \o EQ5
\* lines that differ from the marker line of page p in more than whitespace
NoGapLine(p) == EQ5 \o <<SP>> \o PAGE \o FormatInt(p) \o <<SP>> \o EQ5
FourEqualsLine(p) == EQ4 \o <<SP>> \o PAGE \o <<SP>> \o FormatInt(p) \o <<SP>> \o EQ4
SixEqualsLine(p) == <<"=">> \o MarkerLine(p) \o <<"=">>
LowerCaseLine(p) == EQ5 \o <<SP>> \o LowerStr(PAGE) \o <<SP>> \o FormatInt(p) \o <<SP>> \o EQ5
IndentedLine(p) == <<SP>> \o MarkerLine(p)
TrailingTextLine(p) == MarkerLine(p) \o <<SP, "c">>

MarkerLikeLines(p) ==
    {MarkerLine(p), GluedMarker(p), WideMarker(p), TrailingSpaceMarker(p),
     SpanningMarker(p), OverlappingMarkers(p), NoGapLine(p), FourEqualsLine(p),
     SixEqualsLine(p), LowerCaseLine(p), IndentedLine(p), TrailingTextLine(p)}

\* what stands before and after the marker-like line
Preambles == {<<>>, Section(1, Words2)}
Remainders == {<<>>, <<"c", NL>>, <<"c", NL>> \o Section(1, <<"b">>)}

MarkerDocs ==
    {pre \o line \o <<NL>> \o rest :
        pre \in Preambles,
        line \in UNION {MarkerLikeLines(p) : p \in 1..MaxPage},
        rest \in Remainders}

InitMarkers ==
    /\ pc = "start"
    /\ mac_file \in MarkerDocs
    /\ deep_file = [exists |-> FALSE, text |-> <<>>]
    /\ pages_dir = NoPagesDir
    /\ fs = [d \in Dirs |-> EmptyDir]
    /\ mac_text = <<>>
    /\ deep_text = <<>>
    /\ deepseek_input_mode = ""
    /\ mac_pages = EmptyPages
    /\ deep_pages = EmptyPages
    /\ result = NoResult
    /\ run_meta = NoRunMeta
    /\ actual_output_dir = NoPath
    /\ error = "none"
    /\ prev_run = NoRun
    /\ MetricsIdle

MarkerSpec == InitMarkers /\ [][Next]_vars

\* ------------------------------------------------------------ properties

\* harmonize has returned in this run
Harmonized == result.total_pages > 0
\* main has returned or raised
Terminal == pc \in {"done", "failed"}
AllArtifacts == SeqToSet(Artifacts)
\* the artifacts of directory d that this run wrote
CurrentArtifacts(d) == {f \in AllArtifacts : fs[d][f].present /\ fs[d][f].run = "current"}
\* the page numbers of the page markers recognized in a text
MarkerPages(text) == {m.page : m \in SeqToSet(FindIter(text, 1))}
InputPages == DOMAIN mac_pages \cup DOMAIN deep_pages

\* C1: the page numbers that appear as page markers in the merged output text
\* are exactly the union of the page numbers of the two input page maps.
C1_MergedPagesEqualUnion ==
    Harmonized => MarkerPages(result.harmonized_text) = InputPages

\* C2: in primary-only mode (the secondary page map is empty) the winner
\* recorded for every page is the primary transcription.
C2_PrimaryOnlyWinnerIsPrimary ==
    (Harmonized /\ DOMAIN deep_pages = {}) =>
        \A k \in 1..Len(result.meta_pages) : result.meta_pages[k].winner = "macos"

\* the side a page present in only one map must be decided for, the recorded
\* winner for a page present in both
SideOf(m) ==
    IF m.page \notin DOMAIN deep_pages THEN "macos"
    ELSE IF m.page \notin DOMAIN mac_pages THEN "deepseek"
    ELSE m.winner
TextOfSide(side, page) ==
    IF side = "macos" THEN Get(mac_pages, page) ELSE Get(deep_pages, page)
\* the merged text when every page present in only one map carries that map's text
MergedFromSides ==
    Strip(Join([k \in 1..Len(result.meta_pages) |->
                   MarkerLine(result.meta_pages[k].page) \o <<NL>>
                   \o Strip(TextOfSide(SideOf(result.meta_pages[k]),
                                       result.meta_pages[k].page))
                   \o <<NL>>],
               <<NL>>)) \o <<NL>>

\* C3: a page present in only one of the two input maps is decided for the side
\* that has it, and its text in the merged output is that side's text.
C3_OneSidedPageFromItsSide ==
    Harmonized =>
        /\ \A k \in 1..Len(result.meta_pages) :
              result.meta_pages[k].winner = SideOf(result.meta_pages[k])
        /\ result.harmonized_text = MergedFromSides

\* C4: after a run, each directory holds all four artifacts of the run or none
\* of them.
C4_AllOrNothingPerDirectory ==
    Terminal => \A d \in Dirs : CurrentArtifacts(d) \in {{}, AllArtifacts}

MetaJson == "harmonized.meta.json"
\* this run wrote harmonized.meta.json into directory d
MetaWritten(d) == fs[d][MetaJson].present /\ fs[d][MetaJson].run = "current"

\* C5: when the target directory cannot be written the run falls back to the
\* local directory, the metadata written there records the fallback, and the run
\* ends with written output or with a reported error.
C5_UnwritableTargetFallsBack ==
    Terminal =>
        /\ (Harmonized /\ CurrentArtifacts(TargetDir) # AllArtifacts) =>
               actual_output_dir = DEFAULT_LOCAL_FALLBACK_OUTPUT
        /\ (pc = "done" /\ actual_output_dir = DEFAULT_LOCAL_FALLBACK_OUTPUT) =>
               /\ CurrentArtifacts(DEFAULT_LOCAL_FALLBACK_OUTPUT) = AllArtifacts
               /\ fs[DEFAULT_LOCAL_FALLBACK_OUTPUT][MetaJson].content.run.output_dir_fallback
                      = DEFAULT_LOCAL_FALLBACK_OUTPUT
        /\ \/ pc = "done" /\ CurrentArtifacts(actual_output_dir) = AllArtifacts
           \/ error # "none"

\* C6: a primary transcription without any recognized page marker makes the run
\* abort with an error before harmonization; no artifact is created or modified
\* in the target or the fallback directory.
C6_NoMarkersAbortsBeforeOutput ==
    (pc \notin {"start", "loaded"} /\ DOMAIN mac_pages = {}) =>
        /\ pc = "failed"
        /\ error = "ValueError"
        /\ result = NoResult
        /\ \A d \in Dirs : CurrentArtifacts(d) = {}

\* a run whose primary has no marker has been aborted by the marker check, with
\* the artifacts of an earlier run still in place
C6_Witness ==
    /\ pc = "failed"
    /\ mac_file = MalformedDoc
    /\ mac_text = MalformedDoc
    /\ deep_file.exists
    /\ fs[TargetDir] = StaleDir

\* the secondary is absent (no file and no usable per-page file), empty or
\* marker-free
SecondaryUnusable ==
    \/ ~deep_file.exists /\ PageChunks(pages_dir.page_files) = <<>>
    \/ deep_file.exists /\ FindIter(deep_file.text, 1) = <<>>

\* C7: with an absent, empty or marker-free secondary and a primary that has a
\* marker, the run is never aborted before harmonization, and it harmonizes
\* with an empty secondary page map.
C7_MissingSecondaryNeverAborts ==
    /\ (pc = "failed" /\ ~Harmonized) =>
           ~(SecondaryUnusable /\ FindIter(mac_file, 1) # <<>>)
    /\ (pc = "write" /\ SecondaryUnusable) => DOMAIN deep_pages = {}

\* C8: every harmonized.meta.json written by a run that harmonized with an empty
\* secondary page map records the primary-only mode.
C8_PrimaryOnlyModeRecorded ==
    \A d \in Dirs :
        (MetaWritten(d) /\ DOMAIN deep_pages = {}) =>
            fs[d][MetaJson].content.run.deepseek_input_mode
                = "missing_deepseek_fallback_macos_only"

MacScore(m) == m.sources.macos.metrics.quality_score
DeepScore(m) == m.sources.deepseek.metrics.quality_score
Decisions == SeqToSet(result.meta_pages)

\* C9: on an exact tie of the two quality scores the secondary is chosen and the
\* first winner reason is the tie-break reason.
C9_TieGoesToSecondary ==
    \A m \in Decisions :
        MacScore(m) = DeepScore(m) =>
            /\ m.winner = "deepseek"
            /\ m.winner_reasons[1] = "tie_break_deepseek"
            /\ m.winner_reasons[1] # "higher_quality_score"

\* a page with two equally scored non-empty texts has been decided
C9_Witness ==
    \E m \in Decisions :
        /\ MacScore(m) = DeepScore(m)
        /\ m.sources.macos.metrics.word_count > 0
        /\ m.winner = "deepseek"

\* C10: when the two quality scores differ the transcription with the strictly
\* higher score is chosen, for either side, with first reason
\* higher_quality_score; the winner's score is never lower than the loser's.
C10_HigherScoreWins ==
    \A m \in Decisions :
        /\ MacScore(m) > DeepScore(m) =>
               m.winner = "macos" /\ m.winner_reasons[1] = "higher_quality_score"
        /\ DeepScore(m) > MacScore(m) =>
               m.winner = "deepseek" /\ m.winner_reasons[1] = "higher_quality_score"
        /\ m.winner = "macos" => MacScore(m) >= DeepScore(m)
        /\ m.winner = "deepseek" => DeepScore(m) >= MacScore(m)

\* one run has decided a page for the primary and another page for the
\* secondary, each by its higher score
C10_Witness ==
    /\ \E m \in Decisions : MacScore(m) > DeepScore(m) /\ m.winner = "macos"
    /\ \E m \in Decisions : DeepScore(m) > MacScore(m) /\ m.winner = "deepseek"

MacMetrics(m) == m.sources.macos.metrics
DeepMetrics(m) == m.sources.deepseek.metrics
\* the winner the comparison of the two quality scores alone gives
WinnerByScore(m) == IF MacScore(m) > DeepScore(m) THEN "macos" ELSE "deepseek"
\* the override reason of a decision, for the side that won
OverrideReason(m) ==
    IF m.winner = "macos" THEN "macos_short_penalty_override"
    ELSE "deepseek_short_penalty_override"
WinnerShortLoserNot(m) ==
    IF m.winner = "macos" THEN MacMetrics(m).short /\ ~DeepMetrics(m).short
    ELSE DeepMetrics(m).short /\ ~MacMetrics(m).short
HasReason(m, r) == \E k \in 1..Len(m.winner_reasons) : m.winner_reasons[k] = r

\* C11: the short-penalty override reason is metadata only: the winner of every
\* page is the one the comparison of the two quality scores gives, and the
\* override reason of the winning side is appended (after the first reason)
\* exactly when the winner is short and the loser is not.
C11_OverrideIsMetadataOnly ==
    \A m \in Decisions :
        /\ m.winner = WinnerByScore(m)
        /\ HasReason(m, OverrideReason(m)) <=> WinnerShortLoserNot(m)
        /\ Len(m.winner_reasons) = IF WinnerShortLoserNot(m) THEN 2 ELSE 1
        /\ WinnerShortLoserNot(m) => m.winner_reasons[2] = OverrideReason(m)

\* one run has decided a page for a short secondary against a longer primary
\* and another page for a short primary against a longer secondary, each with
\* its override reason
C11_Witness ==
    /\ \E m \in Decisions :
          /\ m.winner = "deepseek"
          /\ WinnerShortLoserNot(m)
          /\ m.winner_reasons = <<"higher_quality_score", "deepseek_short_penalty_override">>
    /\ \E m \in Decisions :
          /\ m.winner = "macos"
          /\ WinnerShortLoserNot(m)
          /\ m.winner_reasons = <<"higher_quality_score", "macos_short_penalty_override">>

\* the page numbers of the page markers of a text, in the order of the markers
MarkerSeq(text) == [k \in 1..Len(FindIter(text, 1)) |-> FindIter(text, 1)[k].page]
DecisionPages == [k \in 1..Len(result.meta_pages) |-> result.meta_pages[k].page]

\* C12: in the merged output and in the per-page decision list every page
\* number of the union appears exactly once, in strictly ascending order.
C12_PagesOnceAscending ==
    Harmonized =>
        /\ DecisionPages = Sorted(InputPages)
        /\ MarkerSeq(result.harmonized_text) = Sorted(InputPages)

\* the per-page decision list on its own holds every page of the union once,
\* in ascending order
C12_DecisionListAscending ==
    Harmonized => DecisionPages = Sorted(InputPages)

\* the three flags in their priority order
FlagOrder == <<"high_disagreement_low_overlap", "both_low_quality", "chosen_suspicious">>
\* the overlap of the two input texts of a decided page is below 0.22
LowOverlap(m) ==
    LET o == jaccard_overlap(Get(mac_pages, m.page), Get(deep_pages, m.page))
    IN 100 * o[1] < 22 * o[2]
WinnerMetrics(m) == IF m.winner = "macos" THEN MacMetrics(m) ELSE DeepMetrics(m)
\* the condition of each flag, on the metrics recorded with the decision
FlagHolds(m, flag) ==
    CASE flag = "high_disagreement_low_overlap" ->
            /\ LowOverlap(m)
            /\ MacMetrics(m).word_count >= 20
            /\ DeepMetrics(m).word_count >= 20
      [] flag = "both_low_quality" ->
            MacMetrics(m).low_quality /\ DeepMetrics(m).low_quality
      [] OTHER -> WinnerMetrics(m).suspicious
FlagFor(m, k) == IF FlagHolds(m, FlagOrder[k]) THEN <<FlagOrder[k]>> ELSE <<>>

\* C13: the flags of every page are exactly the flags whose condition holds,
\* in the order high_disagreement_low_overlap, both_low_quality,
\* chosen_suspicious (stated where harmonize returns; the result is not
\* assigned again in the run).
C13_FlagsAreTheHoldingOnesInOrder ==
    pc = "write" =>
        \A m \in Decisions : m.flags = FlagFor(m, 1) \o FlagFor(m, 2) \o FlagFor(m, 3)

\* one run has a page with all three flags and a page with none, and its page
\* with none has low overlap with only one substantial side
C13_Witness ==
    /\ \E m \in Decisions : m.flags = FlagOrder
    /\ \E m \in Decisions :
          /\ m.flags = <<>>
          /\ LowOverlap(m)
          /\ MacMetrics(m).word_count >= 20
          /\ DeepMetrics(m).word_count < 20

\* what a review queue entry and a decision say in common
Verdict(x) ==
    [page |-> x.page, winner |-> x.winner, flags |-> x.flags,
     overlap_jaccard |-> x.overlap_jaccard]
Verdicts(xs) == [k \in 1..Len(xs) |-> Verdict(xs[k])]
\* the decisions with a nonempty flags list, in the order of the list
Flagged(decisions) == SelectSeq(decisions, HasFlags)

\* C14: the review queue is exactly the sub-list of the per-page decisions with
\* nonempty flags, in the same order with the same winner, flags and overlap;
\* flagged_pages is its length, total_pages the size of the page-number union,
\* and flagged_pages <= total_pages.
C14_ReviewQueueIsFlaggedSublist ==
    Harmonized =>
        /\ Verdicts(result.review_queue) = Verdicts(Flagged(result.meta_pages))
        /\ result.flagged_pages = Len(result.review_queue)
        /\ result.total_pages = Cardinality(InputPages)
        /\ result.flagged_pages <= result.total_pages

\* harmonize has returned a result with a flagged page after an unflagged one
C14_Witness ==
    /\ Harmonized
    /\ result.total_pages = 2
    /\ result.flagged_pages = 1
    /\ result.meta_pages[1].flags = <<>>
    /\ result.review_queue[1].page = 2

\* artifact f of the directory the run reports
Reported(f) == fs[actual_output_dir][f]
ReportedMeta == Reported(MetaJson).content
ReportedReviewMd == Reported("review_queue.md").content
ReportedJsonl == Reported("review_queue.jsonl").content
\* the merged text that the recorded winners choose from the two page maps
MergedByWinners(decisions) ==
    Strip(Join([k \in 1..Len(decisions) |->
                   MarkerLine(decisions[k].page) \o <<NL>>
                   \o Strip(TextOfSide(decisions[k].winner, decisions[k].page))
                   \o <<NL>>],
               <<NL>>)) \o <<NL>>

\* C15: after a run that reports success the four artifacts of the directory it
\* reports are all of this run and mutually consistent: both review queue files
\* list exactly the flagged pages of harmonized.meta.json (same winner, flags
\* and overlap), the summary counts match those lists, and harmonized.md is the
\* text chosen by those page decisions.
C15_ArtifactsMutuallyConsistent ==
    pc = "done" =>
        /\ \A f \in AllArtifacts : Reported(f).present /\ Reported(f).run = "current"
        /\ Verdicts(ReportedJsonl) = Verdicts(Flagged(ReportedMeta.pages))
        /\ Verdicts(ReportedReviewMd.items) = Verdicts(Flagged(ReportedMeta.pages))
        /\ ReportedMeta.summary.flagged_pages = Len(ReportedJsonl)
        /\ ReportedMeta.summary.total_pages = Len(ReportedMeta.pages)
        /\ ReportedReviewMd.flagged_pages = ReportedMeta.summary.flagged_pages
        /\ ReportedReviewMd.total_pages = ReportedMeta.summary.total_pages
        /\ Reported("harmonized.md").content = MergedByWinners(ReportedMeta.pages)

\* a run has reported success from the fallback directory, with a flagged and
\* an unflagged page, after the target directory took part of the artifacts
C15_Witness ==
    /\ pc = "done"
    /\ actual_output_dir = DEFAULT_LOCAL_FALLBACK_OUTPUT
    /\ CurrentArtifacts(TargetDir) = {"harmonized.md", MetaJson}
    /\ ReportedMeta.summary.total_pages = 2
    /\ ReportedMeta.summary.flagged_pages = 1
    /\ Len(ReportedJsonl) = 1

\* artifact f of directory d was written by the first run, and again by the
\* second run
WrittenTwice(d, f) ==
    /\ prev_run.ran
    /\ prev_run.fs[d][f].present
    /\ prev_run.fs[d][f].run = "current"
    /\ fs[d][f].present
    /\ fs[d][f].run = "current"

\* C16: run a second time on the same inputs, harmonize returns the same merged
\* text, decision list and review queue as the first time, and every artifact
\* the second run overwrites has the content the first run gave it.
C16_RerunIsIdempotent ==
    /\ (prev_run.ran /\ Harmonized) => result = prev_run.result
    /\ \A d \in Dirs : \A f \in AllArtifacts :
          WrittenTwice(d, f) => fs[d][f].content = prev_run.fs[d][f].content

\* a second run has reported success after overwriting all four artifacts of
\* the first run, with a page in the review queue
C16_Witness ==
    /\ pc = "done"
    /\ \A f \in AllArtifacts : WrittenTwice(actual_output_dir, f)
    /\ result.flagged_pages > 0
    /\ result.flagged_pages < result.total_pages

\* the primary text of a decided page has at least 25 words, no symbol
\* character and no duplicate line, and its secondary text is empty
CleanPrimaryEmptySecondary(m) ==
    /\ MacMetrics(m).word_count >= 25
    /\ MacMetrics(m).symbol_noise_ratio = 0
    /\ MacMetrics(m).duplicate_line_ratio = 0
    /\ DeepMetrics(m).char_count = 0
InReviewQueue(page) ==
    \E k \in 1..Len(result.review_queue) : result.review_queue[k].page = page

\* C20: a page whose primary text has at least 25 words, no symbol character
\* and no duplicate line, and whose secondary text is empty, is decided for the
\* primary by quality score, with no flag, and is not in the review queue.
C20_CleanPrimaryWinsUnflagged ==
    \A m \in Decisions :
        CleanPrimaryEmptySecondary(m) =>
            /\ m.winner = "macos"
            /\ m.winner_reasons = <<"higher_quality_score">>
            /\ MacScore(m) > DeepScore(m)
            /\ m.flags = <<>>
            /\ ~InReviewQueue(m.page)

\* the page of 25 times the word AAA against an empty secondary has been decided
C20_Witness ==
    \E m \in Decisions :
        /\ CleanPrimaryEmptySecondary(m)
        /\ MacMetrics(m).word_count = 25
        /\ Get(mac_pages, m.page) = Clean25
        /\ DeepMetrics(m).empty
        /\ m.page \notin DOMAIN deep_pages
        /\ m.winner = "macos"

\* the exact symbol noise and duplicate line ratios of page_text, as fractions
\* <<numerator, denominator>>
ExactSymbolNoise ==
    IF CountNonSpace(Strip(page_text)) = 0 THEN <<1, 1>>
    ELSE <<CountSymbol(Strip(page_text)), CountNonSpace(Strip(page_text))>>
TextSignatures == Signatures(SplitLines(Strip(page_text), 1))
ExactDuplicateLines ==
    IF Len(TextSignatures) <= 1 THEN <<0, 1>>
    ELSE <<Len(TextSignatures) - Cardinality(SeqToSet(TextSignatures)), Len(TextSignatures)>>
\* the richness bonus of page_text, in 1/20 of a point
Bonus20 == Min(page_metrics.word_count, 300)
\* 20 times (100, minus 120 if empty, minus 30 if short, plus the bonus)
Flat20 ==
    20 * 100
    - (IF page_metrics.word_count = 0 THEN 20 * 120 ELSE 0)
    - (IF page_metrics.word_count < 25 THEN 20 * 30 ELSE 0)
    + Bonus20
\* the claimed score of page_text as the fraction ClaimedNum / ClaimedDen
ClaimedDen == 20 * ExactSymbolNoise[2] * ExactDuplicateLines[2]
ClaimedNum ==
    Flat20 * ExactSymbolNoise[2] * ExactDuplicateLines[2]
    - 20 * 60 * ExactSymbolNoise[1] * ExactDuplicateLines[2]
    - 20 * 40 * ExactDuplicateLines[1] * ExactSymbolNoise[2]
\* what the claim says of the bonus and of the two ratios at their edges
BonusAndEdgeRatios ==
    /\ Bonus20 <= 20 * 15
    /\ CountNonSpace(Strip(page_text)) = 0 => page_metrics.symbol_noise_ratio = 10000
    /\ page_metrics.line_count <= 1 => page_metrics.duplicate_line_ratio = 0

\* C17, as stated: the quality score of a page text equals 100, minus 120 if
\* empty, minus 30 if short, minus 60 times the symbol noise ratio, minus 40
\* times the duplicate line ratio, plus min(word_count, 300) / 20; the bonus
\* never exceeds 15; the symbol noise ratio is 1.0 without a non-whitespace
\* character and the duplicate line ratio 0 with at most one non-blank line.
C17_ScoreEqualsFormula ==
    /\ (page_metrics.quality_score - 1000 * (ClaimedNum \div ClaimedDen)) * ClaimedDen
           = 1000 * (ClaimedNum % ClaimedDen)
    /\ BonusAndEdgeRatios

\* C17, amended: the quality_score of the record is that value rounded to
\* three decimal places; the rest as stated.
C17_ScoreIsRoundedFormula ==
    /\ page_metrics.quality_score = ScaledRound(1000, ClaimedNum, ClaimedDen)
    /\ BonusAndEdgeRatios

\* a clean text has grown past 300 words and scores 100 plus the full bonus
C17_Witness ==
    /\ shorter.defined
    /\ shorter.metrics.word_count <= 300
    /\ page_metrics.word_count > 300
    /\ page_metrics.quality_score = 1000 * (100 + 15)

\* C18: the severity flags of every PageMetrics record agree with the record's
\* own fields: low_quality iff quality_score < 45.0 or (short and
\* symbol_noise_ratio > 0.28); suspicious iff empty or word_count < 15 or
\* symbol_noise_ratio > 0.45 or duplicate_line_ratio > 0.45.
C18_FlagsAgreeWithRecord ==
    /\ page_metrics.low_quality <=>
           \/ page_metrics.quality_score < 45000
           \/ page_metrics.short /\ page_metrics.symbol_noise_ratio > 2800
    /\ page_metrics.suspicious <=>
           \/ page_metrics.empty
           \/ page_metrics.word_count < 15
           \/ page_metrics.symbol_noise_ratio > 4500
           \/ page_metrics.duplicate_line_ratio > 4500

\* C19: of two page texts that differ only in words appended to one of them
\* (words that repeat no earlier word and hold no symbol), the longer one has a
\* quality_score greater than or equal to the other's.
C19_MoreWordsNeverScoreLower ==
    shorter.defined => page_metrics.quality_score >= shorter.metrics.quality_score

\* a text that was short has grown by several words to 25 words and scores
\* strictly higher
C19_Witness ==
    /\ shorter.defined
    /\ shorter.metrics.word_count = 25 - 2
    /\ page_metrics.word_count = 25
    /\ shorter.metrics.short
    /\ ~page_metrics.short
    /\ page_metrics.quality_score > shorter.metrics.quality_score

\* ------------------------------------------------------------------ overlap

\* the two texts harmonize compares for a decided page
MacText(m) == Get(mac_pages, m.page)
DeepText(m) == Get(deep_pages, m.page)
\* the maximal runs of the characters a-z and 0-9 in the lowercased text, each
\* run once however often it occurs
TokenRuns(text) ==
    LET low == LowerStr(text)
        starts == {i \in 1..Len(low) :
                     IsTokenChar(low[i]) /\ (i = 1 \/ ~IsTokenChar(low[i - 1]))}
        ends == {j \in 1..Len(low) :
                   IsTokenChar(low[j]) /\ (j = Len(low) \/ ~IsTokenChar(low[j + 1]))}
    IN {SubSeq(low, x[1], x[2]) :
           x \in {y \in starts \X ends :
                     y[1] <= y[2] /\ \A k \in y[1]..y[2] : IsTokenChar(low[k])}}
\* |A & B| / |A | B| in 1/10000, rounded as the decision records it
JaccardIndex(A, B) == RoundDiv(10000 * Cardinality(A \cap B), Cardinality(A \cup B))

\* C21: the overlap of the two texts of a page is the Jaccard index of their
\* sets of lowercase alphanumeric tokens (a token repeated in a text counts
\* once) and lies in [0, 1]; it is 1 when both texts have no token and 0 when
\* exactly one has none.
C21_OverlapIsJaccardOfTokenSets ==
    pc = "write" =>
        \A m \in Decisions :
            LET A == TokenRuns(MacText(m))
                B == TokenRuns(DeepText(m))
                o == jaccard_overlap(MacText(m), DeepText(m))
            IN /\ m.overlap_jaccard = RoundOverlap(o)
               /\ 0 <= o[1] /\ o[1] <= o[2] /\ o[2] > 0
               /\ m.overlap_jaccard \in 0..10000
               /\ (A = {} /\ B = {}) => m.overlap_jaccard = 10000
               /\ (A = {}) # (B = {}) => m.overlap_jaccard = 0
               /\ (A # {} /\ B # {}) => m.overlap_jaccard = JaccardIndex(A, B)

\* one run has compared a token-free text with a text of two tokens (overlap
\* 0), and on another page two distinct tokens with 25 repetitions of one of
\* them (1 common token of 2)
C21_Witness ==
    /\ pc = "write"
    /\ \E m \in Decisions :
          /\ token_set(MacText(m)) = {} /\ Cardinality(token_set(DeepText(m))) = 2
          /\ m.overlap_jaccard = 0
    /\ \E m \in Decisions :
          /\ MacText(m) = Words2
          /\ DeepText(m) = LongNoisy
          /\ m.overlap_jaccard = 5000

\* C22: the overlap is symmetric: the overlap recorded for a page, computed
\* from the primary and the secondary text, is the overlap of the secondary and
\* the primary text, also when one or both have no token.
C22_OverlapIsSymmetric ==
    pc = "write" =>
        \A m \in Decisions :
            /\ jaccard_overlap(MacText(m), DeepText(m))
                   = jaccard_overlap(DeepText(m), MacText(m))
            /\ m.overlap_jaccard = RoundOverlap(jaccard_overlap(DeepText(m), MacText(m)))

\* a page whose two texts have token sets of different sizes with a common
\* token has been decided, and a page with tokens on one side only
C22_Witness ==
    /\ pc = "write"
    /\ \E m \in Decisions :
          /\ Cardinality(token_set(MacText(m))) = 1
          /\ Cardinality(token_set(DeepText(m))) = 2
          /\ m.overlap_jaccard = 5000
    /\ \E m \in Decisions :
          /\ token_set(MacText(m)) # {}
          /\ token_set(DeepText(m)) = {}
          /\ m.overlap_jaccard = 0

\* ------------------------------------------------------------ page markers

\* the markers of the primary text, in the order they occur
MacMarkers == FindIter(mac_text, 1)
\* the text between marker k and the next marker (or the end of the text),
\* without the newlines at its ends
BodyAfter(text, k) ==
    LET ms == FindIter(text, 1)
    IN StripNL(SubSeq(text, ms[k].end,
                      (IF k < Len(ms) THEN ms[k + 1].start ELSE Len(text) + 1) - 1))
\* the last marker of the text that names page p
LastMarker(text, p) ==
    CHOOSE k \in 1..Len(FindIter(text, 1)) :
        /\ FindIter(text, 1)[k].page = p
        /\ \A n \in (k + 1)..Len(FindIter(text, 1)) : FindIter(text, 1)[n].page # p
\* parse_pages has returned the two page maps (they are not assigned again)
Parsed == pc = "parsed"

\* C24: a page number named by more than one marker of a document is mapped
\* to the body of its last marker only; the bodies of the earlier markers are
\* neither merged nor concatenated into it.
C24_LastMarkerOfAPageWins ==
    Parsed =>
        /\ DOMAIN mac_pages = MarkerPages(mac_text)
        /\ \A p \in DOMAIN mac_pages :
              mac_pages[p] = BodyAfter(mac_text, LastMarker(mac_text, p))

\* the primary names one page twice, first with a body of two words, then with
\* another nonempty body, and the page is mapped to the second body
C24_Witness ==
    /\ Parsed
    /\ Len(MacMarkers) = 2
    /\ MacMarkers[1].page = MacMarkers[2].page
    /\ BodyAfter(mac_text, 1) = Words2
    /\ BodyAfter(mac_text, 2) = IndentedMarker
    /\ mac_pages[MacMarkers[1].page] = IndentedMarker

\* index i is the start of a line, index f the end of one
AtLineStart(t, i) == i = 1 \/ t[i - 1] = NL
AtLineEnd(t, f) == f = Len(t) + 1 \/ t[f] = NL
AllSpace(t, i, j) == \A k \in i..(j - 1) : IsSpace(t[k])
AllDigits(t, i, j) == \A k \in i..(j - 1) : IsDigit(t[k])
\* the digit strings <<b, c>> of the readings of the text from index i on as:
\* five equals signs at the start of a line, whitespace or none, PAGE, at least
\* one whitespace character, digits, whitespace or none, five equals signs,
\* whitespace or none up to the end of a line; a line break is whitespace
TolerantFormAt(t, i) ==
    IF ~(AtLineStart(t, i) /\ HasAt(t, i, EQ5)) THEN {}
    ELSE {x \in ((i + 5)..Len(t)) \X ((i + 5)..Len(t)) :
             /\ x[1] < x[2]
             /\ AllDigits(t, x[1], x[2])
             /\ \E a \in (i + 5)..x[1] :
                   /\ AllSpace(t, i + 5, a)
                   /\ HasAt(t, a, PAGE)
                   /\ a + 4 < x[1]
                   /\ AllSpace(t, a + 4, x[1])
             /\ \E d \in x[2]..Len(t) :
                   /\ AllSpace(t, x[2], d)
                   /\ HasAt(t, d, EQ5)
                   /\ \E f \in (d + 5)..(Len(t) + 1) :
                         AllSpace(t, d + 5, f) /\ AtLineEnd(t, f)}
\* the digit strings of the lines of the exact form ===== PAGE <N> =====
ExactFormAt(t, i) ==
    IF ~(AtLineStart(t, i) /\ HasAt(t, i, EQ5 \o <<SP>> \o PAGE \o <<SP>>)) THEN {}
    ELSE {x \in {i + 11} \X ((i + 12)..Len(t)) :
             /\ AllDigits(t, x[1], x[2])
             /\ HasAt(t, x[2], <<SP>> \o EQ5)
             /\ AtLineEnd(t, x[2] + 6)}
PageOfDigits(t, x) == ParseInt(SubSeq(t, x[1], x[2] - 1))
\* parse_pages has returned the primary's page map, accepted or not
MacParsed == pc = "parsed" \/ (pc = "failed" /\ ~Harmonized)
\* index i lies in a marker that parse_pages recognized
InMarker(i) == \E k \in 1..Len(MacMarkers) : MacMarkers[k].start <= i /\ i < MacMarkers[k].end

\* C25 as stated: the page entries of the primary are the page numbers of the
\* lines of the exact form ===== PAGE <N> ===== and of no other line
C25_OnlyExactMarkerLines ==
    MacParsed =>
        DOMAIN mac_pages =
            {PageOfDigits(mac_text, x) :
                x \in UNION {ExactFormAt(mac_text, i) : i \in 1..Len(mac_text)}}

\* C25: parse_pages recognizes as page markers the matches, found from left to
\* right without overlap, of: five equals signs at the start of a line,
\* optional whitespace, PAGE, at least one whitespace character, digits,
\* optional whitespace, five equals signs and optional whitespace up to the end
\* of a line, where a line break counts as whitespace; each marker gives its
\* number a page entry, and no other line gives one.
C25_MarkersAreWhitespaceTolerant ==
    MacParsed =>
        /\ \A k \in 1..Len(MacMarkers) :
              \E x \in TolerantFormAt(mac_text, MacMarkers[k].start) :
                  PageOfDigits(mac_text, x) = MacMarkers[k].page
        /\ \A i \in 1..Len(mac_text) :
              TolerantFormAt(mac_text, i) # {} => InMarker(i)
        /\ DOMAIN mac_pages = {MacMarkers[k].page : k \in 1..Len(MacMarkers)}

\* the primary holds an exact marker of page 1 and a marker of page 2 without
\* any space around PAGE 2, and both pages have their entries
C25_Witness ==
    /\ pc = "parsed"
    /\ mac_text = Section(1, Words2) \o GluedMarker(2) \o <<NL, "c", NL>>
    /\ DOMAIN mac_pages = {1, 2}
    /\ mac_pages[1] = Words2
    /\ mac_pages[2] = <<"c">>

\* the lines of the text that read ==== PAGE <N> ====, as <<index, N>>
FourEqualsLines(t) ==
    {x \in (1..Len(t)) \X (1..(MaxPage + 1)) :
        /\ AtLineStart(t, x[1])
        /\ HasAt(t, x[1], FourEqualsLine(x[2]))
        /\ AtLineEnd(t, x[1] + Len(FourEqualsLine(x[2])))}
\* the markers recognized before index i
MarkersBefore(i) == {k \in 1..Len(MacMarkers) : MacMarkers[k].start < i}
\* the first marker recognized after index i, or the end of the text
NextMarkerStart(i) ==
    IF \E k \in 1..Len(MacMarkers) : MacMarkers[k].start > i
    THEN MacMarkers[CHOOSE k \in 1..Len(MacMarkers) :
                       /\ MacMarkers[k].start > i
                       /\ \A n \in 1..(k - 1) : MacMarkers[n].start < i].start
    ELSE Len(mac_text) + 1
\* text sub stands somewhere in text, or at its end
Contains(text, sub) == \E i \in 1..Len(text) : HasAt(text, i, sub)
EndsWith(text, sub) == Len(sub) <= Len(text) /\ HasAt(text, Len(text) - Len(sub) + 1, sub)
\* the line at index i and what follows it up to the next marker
Absorbed(i) == StripNL(SubSeq(mac_text, i, NextMarkerStart(i) - 1))

\* C26: a line ==== PAGE <N> ==== (four equals signs) is no marker and gives
\* its number no page entry; the line and the text after it up to the next
\* marker are the end of the body of the nearest marker before it (and of the
\* page entry when that is the last marker of its page), and are in no page
\* entry when no marker precedes the line.
C26_FourEqualsLineIsBodyText ==
    MacParsed =>
        \A x \in FourEqualsLines(mac_text) :
            /\ ~InMarker(x[1])
            /\ (\A k \in 1..Len(MacMarkers) : MacMarkers[k].page # x[2])
                   => x[2] \notin DOMAIN mac_pages
            /\ \A k \in MarkersBefore(x[1]) :
                  (\A n \in MarkersBefore(x[1]) : n <= k) =>
                      /\ EndsWith(BodyAfter(mac_text, k), Absorbed(x[1]))
                      /\ Contains(BodyAfter(mac_text, k), FourEqualsLine(x[2]))
                      /\ LastMarker(mac_text, MacMarkers[k].page) = k =>
                             EndsWith(mac_pages[MacMarkers[k].page], Absorbed(x[1]))
            /\ MarkersBefore(x[1]) = {} =>
                  \A p \in DOMAIN mac_pages :
                      ~Contains(mac_pages[p], FourEqualsLine(x[2]))

\* the primary holds a marker of page 1 with two words, then the line
\* ==== PAGE 2 ==== and a line of text; page 1 holds all of it and there is no
\* page 2
C26_Witness ==
    /\ pc = "parsed"
    /\ mac_text = Section(1, Words2) \o FourEqualsLine(2) \o <<NL, "c", NL>>
    /\ DOMAIN mac_pages = {1}
    /\ mac_pages[1] = Words2 \o <<NL>> \o FourEqualsLine(2) \o <<NL, "c">>

\* ---------------------------------------------------------------- round trip

\* the page map the claim expects from re-parsing the merged text: every page
\* of the union with the stripped text of its winning side
WinnerTexts ==
    [p \in InputPages |->
        Strip(TextOfSide((CHOOSE m \in Decisions : m.page = p).winner, p))]

\* C28: re-parsing the merged text of harmonize, with parse_pages or with the
\* downstream reader of harmonized.md, gives a page map whose keys are the
\* union of the input page numbers and whose values are the texts of the
\* winning sides with surrounding whitespace removed.
C28_ReparsedMergedTextIsWinnerTexts ==
    pc = "write" =>
        /\ parse_pages(result.harmonized_text) = WinnerTexts
        /\ kb_parse_pages(result.harmonized_text) = WinnerTexts

\* --------------------------------------------------------- token-free pages

\* a PageMetrics record of a text without any token
DegenerateMetrics(pm) == pm.empty /\ pm.short /\ pm.low_quality /\ pm.suspicious
\* both texts of a decided page have no token
TokenFree(m) == TokenRuns(MacText(m)) = {} /\ TokenRuns(DeepText(m)) = {}
FlaggedAsDegenerate(m) ==
    /\ m.flags = <<"both_low_quality", "chosen_suspicious">>
    /\ InReviewQueue(m.page)

\* C29 as stated: every page whose two texts have no token is decided for the
\* secondary by tie-break, flagged both_low_quality and chosen_suspicious and
\* put in the review queue
C29_TokenFreePagesGoToSecondary ==
    pc = "write" =>
        \A m \in Decisions :
            TokenFree(m) =>
                /\ m.winner = "deepseek"
                /\ m.winner_reasons = <<"tie_break_deepseek">>
                /\ FlaggedAsDegenerate(m)

\* C29: a text without a token is empty, short, low_quality and suspicious;
\* a page whose two texts have no token (one of them may be missing) carries
\* exactly the flags both_low_quality and chosen_suspicious and is in the
\* review queue; it is decided for the secondary by tie-break when the two
\* quality scores are equal, and for the side with the higher score otherwise.
C29_TokenFreePagesAreFlagged ==
    pc = "write" =>
        \A m \in Decisions :
            /\ TokenRuns(MacText(m)) = {} => DegenerateMetrics(MacMetrics(m))
            /\ TokenRuns(DeepText(m)) = {} => DegenerateMetrics(DeepMetrics(m))
            /\ TokenFree(m) =>
                  /\ FlaggedAsDegenerate(m)
                  /\ MacScore(m) = DeepScore(m) =>
                        m.winner = "deepseek" /\ m.winner_reasons = <<"tie_break_deepseek">>
                  /\ MacScore(m) # DeepScore(m) =>
                        /\ m.winner = WinnerByScore(m)
                        /\ m.winner_reasons = <<"higher_quality_score">>

\* an empty primary page has met a secondary page of two equal symbol lines:
\* both have no token, the primary scores higher and is chosen, and the page is
\* flagged and queued
C29_Witness ==
    /\ pc = "write"
    /\ \E m \in Decisions :
          /\ MacText(m) = <<>>
          /\ DeepText(m) = SymbolLines
          /\ m.page \in DOMAIN mac_pages
          /\ TokenFree(m)
          /\ MacScore(m) > DeepScore(m)
          /\ m.winner = "macos"
          /\ FlaggedAsDegenerate(m)

\* -------------------------------------------------- two runs, side by side

\* the decisions of the first run, and its two texts of a page
EarlierDecisions == SeqToSet(prev_run.result.meta_pages)
EarlierMacText(m) == Get(prev_run.mac_pages, m.page)
EarlierDeepText(m) == Get(prev_run.deep_pages, m.page)
\* harmonize has returned in the second run
BothHarmonized == prev_run.ran /\ pc = "write"
\* every text of either run with the PageMetrics recorded for it
Measured ==
    {<<MacText(m), MacMetrics(m)>> : m \in Decisions}
    \cup {<<DeepText(m), DeepMetrics(m)>> : m \in Decisions}
    \cup {<<EarlierMacText(m), MacMetrics(m)>> : m \in EarlierDecisions}
    \cup {<<EarlierDeepText(m), DeepMetrics(m)>> : m \in EarlierDecisions}

\* C23: the metrics recorded for one side of a page depend on that side's text
\* alone: a page whose primary text is the same in two runs has the same
\* primary metrics whatever its secondary text is, and the other way round;
\* equal texts have equal metrics on whichever side, page or run they stand.
C23_MetricsDependOnOwnTextOnly ==
    BothHarmonized =>
        /\ \A m \in Decisions : \A e \in EarlierDecisions :
              m.page = e.page =>
                  /\ MacText(m) = EarlierMacText(e) => MacMetrics(m) = MacMetrics(e)
                  /\ DeepText(m) = EarlierDeepText(e) => DeepMetrics(m) = DeepMetrics(e)
        /\ \A x \in Measured : \A y \in Measured : x[1] = y[1] => x[2] = y[2]

\* page 1 has the same primary text of 20 noisy words in both runs, against two
\* different nonempty secondary texts with different metrics
C23_Witness ==
    /\ BothHarmonized
    /\ \E m \in Decisions : \E e \in EarlierDecisions :
          /\ m.page = e.page
          /\ MacText(m) = LowNoisyA
          /\ EarlierMacText(e) = LowNoisyA
          /\ DeepText(m) # <<>>
          /\ EarlierDeepText(e) # <<>>
          /\ DeepMetrics(m).word_count # DeepMetrics(e).word_count
          /\ MacMetrics(m) = MacMetrics(e)

\* the chunk harmonize appends to the merged text for a decided page
ChunkOf(m) ==
    MarkerLine(m.page) \o <<NL>> \o Strip(TextOfSide(m.winner, m.page)) \o <<NL>>
\* the pages of the maps of the two runs differ somewhere else than at page p
OtherPageChanged(p) ==
    \E q \in (DOMAIN mac_pages \cup DOMAIN prev_run.mac_pages
              \cup DOMAIN deep_pages \cup DOMAIN prev_run.deep_pages) \ {p} :
        \/ (q \in DOMAIN mac_pages) # (q \in DOMAIN prev_run.mac_pages)
        \/ (q \in DOMAIN deep_pages) # (q \in DOMAIN prev_run.deep_pages)
        \/ Get(mac_pages, q) # Get(prev_run.mac_pages, q)
        \/ Get(deep_pages, q) # Get(prev_run.deep_pages, q)

\* the review queue entries of a result for page p (one or none)
ReviewEntries(res, p) == {r \in SeqToSet(res.review_queue) : r.page = p}

\* C30: the decision of a page depends on the two texts of that page only: a
\* page with the same two texts in two runs has the same winner, reasons,
\* overlap, flags and merged chunk, and is queued for review in both or in
\* neither, whatever pages were added, removed or changed beside it.
C30_PageDecisionsAreIndependent ==
    BothHarmonized =>
        \A m \in Decisions : \A e \in EarlierDecisions :
            (/\ m.page = e.page
             /\ MacText(m) = EarlierMacText(e)
             /\ DeepText(m) = EarlierDeepText(e)) =>
                /\ m = e
                /\ Contains(result.harmonized_text \o <<NL>>, ChunkOf(m))
                /\ Contains(prev_run.result.harmonized_text \o <<NL>>, ChunkOf(m))
                /\ ReviewEntries(result, m.page) = ReviewEntries(prev_run.result, m.page)

\* page 2 has the same two texts in both runs and the same flagged decision,
\* while page 1 was given another secondary text and another decision
C30_Witness ==
    /\ BothHarmonized
    /\ \E m \in Decisions :
          /\ m.page = 2
          /\ m \in EarlierDecisions
          /\ MacText(m) = EarlierMacText(m)
          /\ DeepText(m) = EarlierDeepText(m)
          /\ m.flags # <<>>
          /\ OtherPageChanged(2)
    /\ \E m \in Decisions : m.page = 1 /\ m \notin EarlierDecisions

\* ------------------------------------------------- output after a failure

\* the earlier run left some of the four artifacts in the target directory,
\* and not all of them
LeftPartial ==
    /\ prev_run.ran
    /\ \E f \in AllArtifacts : prev_run.fs[TargetDir][f].present
    /\ \E f \in AllArtifacts : ~prev_run.fs[TargetDir][f].present
\* run_meta as it was when the target directory was written
TargetRunMeta == [run_meta EXCEPT !.output_dir_fallback = NoPath]
\* every artifact this run has written holds what the assembled result gives it
WrittenFromResult ==
    \A d \in Dirs : \A f \in CurrentArtifacts(d) :
        /\ Harmonized
        /\ pc \in {"write_fallback", "done", "failed"}
        /\ fs[d][f].content =
               Payload(f, result, IF d = TargetDir THEN TargetRunMeta ELSE run_meta)

\* C27: no artifact is written before the result is assembled, and
\* after a run left part of the artifacts in the target directory, a next run
\* against that directory that reports success leaves all four artifacts of
\* the target directory written by itself
C27_TargetHoldsOnlyTheSuccessfulRun ==
    /\ WrittenFromResult
    /\ (LeftPartial /\ pc = "done") => CurrentArtifacts(TargetDir) = AllArtifacts

\* what does hold: no artifact is written before the result is assembled, and
\* after a run left part of the artifacts in the target directory, a next run
\* that reports success leaves all four artifacts of the directory it reports
\* written by itself; that directory is the target directory unless the run
\* fell back to the local directory
ReportedDirHoldsOnlyTheSuccessfulRun ==
    /\ WrittenFromResult
    /\ (LeftPartial /\ pc = "done") =>
           /\ CurrentArtifacts(actual_output_dir) = AllArtifacts
           /\ \A f \in AllArtifacts :
                  Reported(f).content = Payload(f, result, run_meta)
           /\ actual_output_dir = TargetDir
                  \/ /\ actual_output_dir = DEFAULT_LOCAL_FALLBACK_OUTPUT
                     /\ run_meta.output_dir_fallback = DEFAULT_LOCAL_FALLBACK_OUTPUT

====
